---- MODULE Spec2Model ----
(***************************************************************************)
(* Model of website/dash_app/dashboard.py: the module-level dataset load   *)
(* (cache file or remote data package), the get_data callback that derives *)
(* the rolling columns, and the five chart callbacks that Dash runs when   *)
(* the dcc.Store 'data-output' or one of the selection inputs changes.     *)
(*                                                                         *)
(* Numbers.  Prices are positive integers.  A float computed by the code   *)
(* is a fixed-point integer with denominator Scale (v stands for v/Scale). *)
(* A missing value (pandas NaN, JSON null, Python None) is the empty       *)
(* sequence NaN and a present value v is <<v>>.  The pointer angle is kept *)
(* in units of np.pi / Scale, so Scale stands for np.pi and 0 for 0.       *)
(***************************************************************************)
EXTENDS Integers, Sequences, FiniteSets, TLC

VARIABLES
    dataframes,        \* module-level dict: resource name -> table (column -> sequence)
    cache_file,        \* content of oil_prices_dataframes.pkl, or NoFile
    process,           \* "down" | "up": whether the module has been imported
    remote,            \* which version of the remote data package is online, or "unreachable"
    selected_chart,    \* chart-selector.value
    ma_selections,     \* ma-tickboxes.value, a list in the order the boxes were ticked
    period_selections, \* period-selection.value, a string
    data_output,       \* dcc.Store 'data-output'.data
    line_chart,        \* 'line-chart'.figure
    returns_hist,      \* 'returns-hist'.figure
    gauge_chart,       \* window -> '<window>-gauge-chart'.figure
    pending,           \* callbacks Dash has still to run for the last input change
    last_event,        \* history: the input whose change started the current recomputation
    ran,               \* history: callbacks run since that change
    faulted,           \* history: callbacks that raised since that change
    events,            \* history: number of input changes so far
    loaded,            \* history: the dataset as it was right after the load
    contacts,          \* history: number of times the remote package was fetched
    removals,          \* history: number of times the cache file was deleted
    starts             \* history: number of process starts

vars == <<dataframes, cache_file, process, remote, selected_chart, ma_selections,
          period_selections, data_output, line_chart, returns_hist, gauge_chart,
          pending, last_event, ran, faulted, events, loaded, contacts, removals, starts>>

loadVars == <<cache_file, process, remote, contacts, removals, starts>>

uiVars == <<selected_chart, ma_selections, period_selections, data_output, line_chart,
            returns_hist, gauge_chart, pending, last_event, ran, faulted, events>>

---------------------------------------------------------------------------
(* Bounds of the model *)

\* denominator of the fixed-point numbers
Scale == 100

\* number of input changes (dropdown, checklist) followed in one page session
MaxEvents == 2

\* number of process starts followed
MaxStarts == 3

\* largest price at which the angle policy is compared with the gauge's arithmetic
MaxPrice == 12

---------------------------------------------------------------------------
(* Constants of the program *)

W20 == 20

W50 == 50

W100 == 100

Windows == {W20, W50, W100}

NBins == 15

\* period-selection options: the values are strings
PeriodOptions == {"20", "60", "100", "250"}

\* ma-tickboxes options
MAOptions == {"SMA20", "SMA50", "SMA100"}

\* chart-selector has clearable=True by default: the value None is the cleared dropdown
None == "None"

\* chart-selector values followed by the model: three of the eight options and None
ChartValues == {"brent-daily_csv", "brent-year_csv", "wti-daily_csv", None}

SMACol(k) == IF k = W20 THEN "SMA20" ELSE IF k = W50 THEN "SMA50" ELSE "SMA100"

STDCol(k) == IF k = W20 THEN "STD20" ELSE IF k = W50 THEN "STD50" ELSE "STD100"

\* int(period_selections)
IntOf(s) == CASE s = "20" -> 20 [] s = "60" -> 60 [] s = "100" -> 100 [] s = "250" -> 250

---------------------------------------------------------------------------
(* Missing values and float arithmetic *)

NaN == <<>>

Def(v) == <<v>>

IsDef(x) == x # NaN

Val(x) == x[1]

\* x - y, x + y, k * x on floats: NaN propagates
FSub(x, y) == IF IsDef(x) /\ IsDef(y) THEN Def(Val(x) - Val(y)) ELSE NaN

FAdd(x, y) == IF IsDef(x) /\ IsDef(y) THEN Def(Val(x) + Val(y)) ELSE NaN

FTimes(k, x) == IF IsDef(x) THEN Def(k * Val(x)) ELSE NaN

\* x <= y, x >= y on floats: every comparison with NaN is False
FLeq(x, y) == IsDef(x) /\ IsDef(y) /\ Val(x) <= Val(y)

FGeq(x, y) == IsDef(x) /\ IsDef(y) /\ Val(x) >= Val(y)

\* Python's builtin min(a, b) and max(a, b): b when b < a (b > a), else a
PyMin(a, b) == IF IsDef(a) /\ IsDef(b) /\ Val(b) < Val(a) THEN b ELSE a

PyMax(a, b) == IF IsDef(a) /\ IsDef(b) /\ Val(b) > Val(a) THEN b ELSE a

RECURSIVE ISqrt(_)
\* floor of the square root
ISqrt(n) ==
    IF n < 2 THEN n
    ELSE LET small == 2 * ISqrt(n \div 4)
             large == small + 1
         IN  IF large * large > n THEN small ELSE large

---------------------------------------------------------------------------
(* The remote data package and the tables it holds *)

\* Date column of an n-row table: the n dates in ascending order
Dates(n) == [i \in 1..n |-> i]

\* brent-daily_csv: 101 rows, prices between 2 and 8
DailyPrice == [i \in 1..101 |-> 2 + ((i * 3) % 7)]

\* brent-year_csv: 3 rows, fewer rows than any window
YearPrice == <<10, 11, 9>>

\* wti-daily_csv: 50 rows of one constant price
FlatPrice == [i \in 1..50 |-> 5]

\* wti-daily_csv as the second version of the package publishes it: 21 rows, a late jump
JumpPrice == [i \in 1..21 |-> IF i < 21 THEN 5 ELSE 9]

Table(prices) == [Date |-> Dates(Len(prices)), Price |-> prices]

\* package.resources of the two versions of the data package; datapackage.json
\* lists non-tabular resources beside the CSV ones
Resources(version) ==
    IF version = "v1"
    THEN << [name |-> "brent-daily_csv", tabular |-> TRUE, csv |-> Table(DailyPrice)],
            [name |-> "oil-prices_zip", tabular |-> FALSE, csv |-> Table(<<>>)],
            [name |-> "brent-year_csv", tabular |-> TRUE, csv |-> Table(YearPrice)],
            [name |-> "wti-daily_csv", tabular |-> TRUE, csv |-> Table(FlatPrice)] >>
    ELSE << [name |-> "brent-daily_csv", tabular |-> TRUE, csv |-> Table(DailyPrice)],
            [name |-> "brent-year_csv", tabular |-> TRUE, csv |-> Table(YearPrice)],
            [name |-> "validation_report", tabular |-> FALSE, csv |-> Table(<<>>)],
            [name |-> "wti-daily_csv", tabular |-> TRUE, csv |-> Table(JumpPrice)] >>

RemoteStates == {"v1", "v2", "unreachable"}

---------------------------------------------------------------------------
(* LOAD DATA: dashboard.py lines 36-65 *)

NoFile == [exists |-> FALSE]

NotLoaded == [n \in {} |-> NaN]

\* pickle.dump(dataframes, f): the file holds the pickled object
PickleDump(obj) == [exists |-> TRUE, pickled |-> obj]

\* pickle.load(f)
PickleLoad(file) == file.pickled

RECURSIVE FetchLoop(_, _)
\* for resource in resources: if resource.tabular: dataframes[resource.name] = data
FetchLoop(resources, acc) ==
    IF resources = <<>> THEN acc
    ELSE LET resource == Head(resources)
             next == IF resource.tabular
                     THEN [n \in DOMAIN acc \cup {resource.name} |->
                              IF n = resource.name THEN resource.csv ELSE acc[n]]
                     ELSE acc
         IN  FetchLoop(Tail(resources), next)

\* the else branch of the load: the dict built from the package's resources
FetchDataframes(version) == FetchLoop(Resources(version), NotLoaded)

---------------------------------------------------------------------------
(* SELECT AND EDIT DATA: get_data and the pandas operations it calls *)

RECURSIVE RangeSum(_, _, _, _)
\* sum of xs[lo..hi], of the squares when Sq, by halving the range
RangeSum(xs, lo, hi, Sq) ==
    IF lo > hi THEN 0
    ELSE IF lo = hi THEN (IF Sq THEN xs[lo] * xs[lo] ELSE xs[lo])
    ELSE LET mid == (lo + hi) \div 2
         IN  RangeSum(xs, lo, mid, Sq) + RangeSum(xs, mid + 1, hi, Sq)

\* mutant of FirstFull: the first full window taken one row late
FirstFull_Late(k) == k + 1

\* first row (from 1) at which rolling(k) has a full window: min_periods is k
FirstFull(k) == k

\* data["Price"].rolling(k).mean(): the mean of the k rows ending at row i
RollingMean(price, k) ==
    [i \in 1..Len(price) |->
        IF i < FirstFull(k) THEN NaN
        ELSE Def((RangeSum(price, i - k + 1, i, FALSE) * Scale) \div k)]

\* data["Price"].rolling(k).std(): sample standard deviation (ddof = 1) of the same rows
RollingStd(price, k) ==
    [i \in 1..Len(price) |->
        IF i < FirstFull(k) THEN NaN
        ELSE LET s == RangeSum(price, i - k + 1, i, FALSE)
                 q == RangeSum(price, i - k + 1, i, TRUE)
             IN  Def(ISqrt(((k * q - s * s) * Scale * Scale) \div (k * (k - 1))))]

\* data["Price"].pct_change()
PctChange(price) ==
    [i \in 1..Len(price) |->
        IF i = 1 THEN NaN ELSE Def(((price[i] * Scale) \div price[i - 1]) - Scale)]

\* data[col] = values: assignment of a column of the DataFrame, in place
SetCol(data, col, values) ==
    [c \in DOMAIN data \cup {col} |-> IF c = col THEN values ELSE data[c]]

\* mutant of AddColumns: the Price column is rescaled in place before the
\* derived columns are computed from it
AddColumns_Rescaled(data) ==
    LET d0 == SetCol(data, "Price", [i \in 1..Len(data["Price"]) |-> 2 * data["Price"][i]])
        d1 == SetCol(d0, "SMA20", RollingMean(d0["Price"], W20))
        d2 == SetCol(d1, "SMA50", RollingMean(d1["Price"], W50))
        d3 == SetCol(d2, "SMA100", RollingMean(d2["Price"], W100))
        d4 == SetCol(d3, "STD20", RollingStd(d3["Price"], W20))
        d5 == SetCol(d4, "STD50", RollingStd(d4["Price"], W50))
        d6 == SetCol(d5, "STD100", RollingStd(d5["Price"], W100))
    IN  SetCol(d6, "Returns", PctChange(d6["Price"]))

\* lines 123-129: the seven column assignments on the table found in dataframes
AddColumns(data) ==
    LET d1 == SetCol(data, "SMA20", RollingMean(data["Price"], W20))
        d2 == SetCol(d1, "SMA50", RollingMean(d1["Price"], W50))
        d3 == SetCol(d2, "SMA100", RollingMean(d2["Price"], W100))
        d4 == SetCol(d3, "STD20", RollingStd(d3["Price"], W20))
        d5 == SetCol(d4, "STD50", RollingStd(d4["Price"], W50))
        d6 == SetCol(d5, "STD100", RollingStd(d5["Price"], W100))
    IN  SetCol(d6, "Returns", PctChange(d6["Price"]))

\* what the iteration `for chart_name, data in dataframes.items()` binds data to
\* on a match: the table object held by the module-level dict itself
LoopTable(frames, chart_name) == frames[chart_name]

\* the module-level dict after get_data(selected_chart)
FramesAfterGetData(frames, chart) ==
    IF chart \in DOMAIN frames
    THEN [n \in DOMAIN frames |->
            IF n = chart THEN AddColumns(LoopTable(frames, n)) ELSE frames[n]]
    ELSE frames

NoData == [none |-> TRUE]

\* data.to_dict(), then the JSON of the dcc.Store: column -> {row label -> value},
\* row labels from 0, NaN as null
ToDict(data) ==
    [c \in DOMAIN data |-> [i \in 0..(Len(data[c]) - 1) |-> data[c][i + 1]]]

\* get_data(selected_chart) on the module-level dict: the dict afterwards and the
\* value returned, the to_dict() of the matching table or None when the loop ends
\* without a match
get_data(frames, chart) ==
    LET after == FramesAfterGetData(frames, chart)
    IN  [frames |-> after,
         result |-> IF chart \in DOMAIN frames THEN ToDict(after[chart]) ELSE NoData]

\* pd.DataFrame.from_dict(data): None gives the empty frame; a dict of dicts gives
\* its columns with the rows in label order
FromDict(data) ==
    IF data = NoData THEN [c \in {} |-> <<>>]
    ELSE [c \in DOMAIN data |-> [i \in 1..Cardinality(DOMAIN data[c]) |-> data[c][i - 1]]]

\* number of rows of a frame
NRows(frame) == IF DOMAIN frame = {} THEN 0 ELSE Len(frame[CHOOSE c \in DOMAIN frame : TRUE])

---------------------------------------------------------------------------
(* The chart callbacks *)

\* a figure property before its callback has returned anything
NoFigure == [none |-> TRUE]

\* the callback raised: Dash answers the request with an error and leaves the
\* output property as it was
Raise == [raise |-> TRUE]

\* plot_line_chart: px.line needs the columns Date and Price, add_scatter reads data[ma]
plot_line_chart(data, ma_list) ==
    LET frame == FromDict(data)
    IN  IF ~({"Date", "Price"} \subseteq DOMAIN frame) THEN Raise
        ELSE IF \E i \in 1..Len(ma_list) : ma_list[i] \notin DOMAIN frame THEN Raise
        ELSE [x |-> frame["Date"], y |-> frame["Price"],
              scatters |-> [i \in 1..Len(ma_list) |->
                              [name |-> ma_list[i], x |-> frame["Date"],
                               y |-> frame[ma_list[i]]]]]

update_line_chart(data, ma_list) == plot_line_chart(data, ma_list)

\* number of rows data.tail(n) keeps
TailCount(len, n) == IF n < len THEN n ELSE len

\* mutant of TailRows: head(n) instead of tail(n)
TailRows_Head(column, n) == SubSeq(column, 1, TailCount(Len(column), n))

\* column.tail(n): the last n rows, all of them when there are fewer
TailRows(column, n) ==
    SubSeq(column, Len(column) - TailCount(Len(column), n) + 1, Len(column))

\* update_histogram: px.histogram needs the column Returns
update_histogram(data, period) ==
    LET frame == FromDict(data)
    IN  IF "Returns" \notin DOMAIN frame THEN Raise
        ELSE [x |-> TailRows(frame["Returns"], IntOf(period)),
              nbins |-> NBins,
              title |-> period]

\* a / b on numpy floats: no exception, a non-finite value when b is 0
FDiv(a, b) ==
    IF IsDef(a) /\ IsDef(b) /\ Val(b) # 0 THEN Def((Val(a) * Scale) \div Val(b)) ELSE NaN

\* mutant of PointerAngle: the else branch without the `1 -`
PointerAngle_Rising(current_value, min_value, max_value) ==
    IF FLeq(current_value, min_value) THEN Def(Scale)
    ELSE IF FGeq(current_value, max_value) THEN Def(0)
    ELSE FDiv(FSub(PyMax(min_value, PyMin(max_value, current_value)), min_value),
              FSub(max_value, min_value))

\* the if / elif / else that sets pointer_angle, as a factor of np.pi
PointerAngle(current_value, min_value, max_value) ==
    IF FLeq(current_value, min_value) THEN Def(Scale)
    ELSE IF FGeq(current_value, max_value) THEN Def(0)
    ELSE FSub(Def(Scale),
              FDiv(FSub(PyMax(min_value, PyMin(max_value, current_value)), min_value),
                   FSub(max_value, min_value)))

\* the body the three gauge callbacks share, with the columns each one reads.
\* data.iloc[-1] raises on a frame without rows.  A rolling value that is missing
\* reaches the callback as NaN when its column holds a number somewhere and as None
\* when the whole column is null in the store's JSON: arithmetic on NaN gives NaN,
\* 2 * None raises.  Both outcomes are kept.
GaugeOutcomes(data, sma_col, std_col) ==
    LET frame == FromDict(data)
        n == NRows(frame)
    IN  IF n = 0 \/ ~({"Date", "Price", sma_col, std_col} \subseteq DOMAIN frame)
        THEN {Raise}
        ELSE LET current_value == Def(frame["Price"][n] * Scale)
                 sma == frame[sma_col][n]
                 std == frame[std_col][n]
                 min_value == FSub(sma, FTimes(2, std))
                 max_value == FAdd(sma, FTimes(2, std))
                 figure == [pointer_angle |-> PointerAngle(current_value, min_value, max_value),
                            current_date |-> frame["Date"][n],
                            current_value |-> current_value]
             IN  IF IsDef(sma) /\ IsDef(std) THEN {figure} ELSE {figure, Raise}

plot_100_gauge(data) == GaugeOutcomes(data, "SMA100", "STD100")

plot_50_gauge(data) == GaugeOutcomes(data, "SMA50", "STD50")

plot_20_gauge(data) == GaugeOutcomes(data, "SMA20", "STD20")

\* mutant of Triggered: update_histogram also takes ma-tickboxes as an Input
Triggered_Extra(input) ==
    CASE input = "chart-selector" -> {"get_data"}
      [] input = "data-output" -> {"update_line_chart", "update_histogram",
                                   "plot_100_gauge", "plot_50_gauge", "plot_20_gauge"}
      [] input = "ma-tickboxes" -> {"update_line_chart", "update_histogram"}
      [] input = "period-selection" -> {"update_histogram"}

\* the callbacks that have the given component property as an Input
Triggered(input) ==
    CASE input = "chart-selector" -> {"get_data"}
      [] input = "data-output" -> {"update_line_chart", "update_histogram",
                                   "plot_100_gauge", "plot_50_gauge", "plot_20_gauge"}
      [] input = "ma-tickboxes" -> {"update_line_chart"}
      [] input = "period-selection" -> {"update_histogram"}

\* the property a callback leaves when it returns value: unchanged when it raised
OutputOf(value, old) == IF value = Raise THEN old ELSE value

\* faulted after a callback returned value
FaultedOf(value, name) == IF value = Raise THEN faulted \cup {name} ELSE faulted

---------------------------------------------------------------------------
(* The page: input changes and the callbacks Dash runs for them *)

Idle == pending = {}

\* the layout's initial property values (lines 82, 94, 106) and empty outputs
PageInit ==
    /\ selected_chart = "brent-daily_csv"
    /\ ma_selections = <<>>
    /\ period_selections = "100"
    /\ data_output = NoData
    /\ line_chart = NoFigure
    /\ returns_hist = NoFigure
    /\ gauge_chart = [k \in Windows |-> NoFigure]
    /\ last_event = "chart-selector"
    /\ ran = {}
    /\ faulted = {}
    /\ events = 0

\* the state once the module is imported and the page is first rendered: the
\* dataset is loaded and Dash is about to run get_data for the initial value
Init ==
    /\ remote \in {"v1", "v2"}
    /\ dataframes = FetchDataframes(remote)
    /\ loaded = dataframes
    /\ cache_file = PickleDump(dataframes)
    /\ process = "up"
    /\ contacts = 1
    /\ removals = 0
    /\ starts = 1
    /\ PageInit
    /\ pending = Triggered("chart-selector")

\* what every input change does besides setting its property
InputChanged(input) ==
    /\ pending' = Triggered(input)
    /\ last_event' = input
    /\ ran' = {}
    /\ faulted' = {}
    /\ events' = events + 1

\* the user picks another chart, or clears the dropdown
SelectChart(value) ==
    /\ process = "up" /\ Idle /\ events < MaxEvents
    /\ value # selected_chart
    /\ selected_chart' = value
    /\ InputChanged("chart-selector")
    /\ UNCHANGED <<dataframes, loaded, loadVars, ma_selections, period_selections,
                   data_output, line_chart, returns_hist, gauge_chart>>

\* the checklist value after a click on the box ma: appended when unticked, removed when ticked
Toggled(ma_list, ma) ==
    IF \E i \in 1..Len(ma_list) : ma_list[i] = ma
    THEN SelectSeq(ma_list, LAMBDA m : m # ma)
    ELSE Append(ma_list, ma)

\* the user ticks or unticks a moving average
TickMA(ma) ==
    /\ process = "up" /\ Idle /\ events < MaxEvents
    /\ ma_selections' = Toggled(ma_selections, ma)
    /\ InputChanged("ma-tickboxes")
    /\ UNCHANGED <<dataframes, loaded, loadVars, selected_chart, period_selections,
                   data_output, line_chart, returns_hist, gauge_chart>>

\* the user picks another histogram period
SelectPeriod(value) ==
    /\ process = "up" /\ Idle /\ events < MaxEvents
    /\ value # period_selections
    /\ period_selections' = value
    /\ InputChanged("period-selection")
    /\ UNCHANGED <<dataframes, loaded, loadVars, selected_chart, ma_selections,
                   data_output, line_chart, returns_hist, gauge_chart>>

\* bookkeeping of a callback that has run and returned value
Ran(name, value) ==
    /\ ran' = ran \cup {name}
    /\ faulted' = FaultedOf(value, name)
    /\ UNCHANGED <<last_event, events, selected_chart, ma_selections, period_selections,
                   loaded, loadVars>>

\* Dash runs get_data and stores its return value in 'data-output', which
\* triggers the callbacks that read the store
RunGetData ==
    /\ process = "up" /\ "get_data" \in pending
    /\ LET r == get_data(dataframes, selected_chart)
       IN  /\ dataframes' = r.frames
           /\ data_output' = r.result
           /\ Ran("get_data", r.result)
    /\ pending' = (pending \ {"get_data"}) \cup Triggered("data-output")
    /\ UNCHANGED <<line_chart, returns_hist, gauge_chart>>

RunLineChart ==
    /\ process = "up" /\ "update_line_chart" \in pending
    /\ LET figure == update_line_chart(data_output, ma_selections)
       IN  /\ line_chart' = OutputOf(figure, line_chart)
           /\ Ran("update_line_chart", figure)
    /\ pending' = pending \ {"update_line_chart"}
    /\ UNCHANGED <<dataframes, data_output, returns_hist, gauge_chart>>

RunHistogram ==
    /\ process = "up" /\ "update_histogram" \in pending
    /\ LET figure == update_histogram(data_output, period_selections)
       IN  /\ returns_hist' = OutputOf(figure, returns_hist)
           /\ Ran("update_histogram", figure)
    /\ pending' = pending \ {"update_histogram"}
    /\ UNCHANGED <<dataframes, data_output, line_chart, gauge_chart>>

\* one of the three gauge callbacks, writing the figure of its own graph
RunGauge(name, window, outcomes) ==
    /\ process = "up" /\ name \in pending
    /\ \E figure \in outcomes :
          /\ gauge_chart' = [gauge_chart EXCEPT ![window] = OutputOf(figure, @)]
          /\ Ran(name, figure)
    /\ pending' = pending \ {name}
    /\ UNCHANGED <<dataframes, data_output, line_chart, returns_hist>>

RunGauge100 == RunGauge("plot_100_gauge", W100, plot_100_gauge(data_output))

RunGauge50 == RunGauge("plot_50_gauge", W50, plot_50_gauge(data_output))

RunGauge20 == RunGauge("plot_20_gauge", W20, plot_20_gauge(data_output))

Next ==
    \/ \E value \in ChartValues : SelectChart(value)
    \/ \E ma \in MAOptions : TickMA(ma)
    \/ \E value \in PeriodOptions : SelectPeriod(value)
    \/ RunGetData
    \/ RunLineChart
    \/ RunHistogram
    \/ RunGauge100
    \/ RunGauge50
    \/ RunGauge20

Spec == Init /\ [][Next]_vars

---------------------------------------------------------------------------
(* Process starts: the module-level load, run once per import of dashboard.py *)

\* mutant of CacheExists: the test of line 41 always fails
CacheExists_Never(file) == FALSE

\* os.path.exists(cache_filename)
CacheExists(file) == file # NoFile

\* no process has run yet: no cache file, no page
LoadInit ==
    /\ remote \in RemoteStates
    /\ dataframes = NotLoaded
    /\ loaded = NotLoaded
    /\ cache_file = NoFile
    /\ process = "down"
    /\ contacts = 0
    /\ removals = 0
    /\ starts = 0
    /\ PageInit
    /\ pending = {}

\* import with the cache file present: lines 41-45
ImportFromCache ==
    /\ process = "down" /\ starts < MaxStarts
    /\ CacheExists(cache_file)
    /\ dataframes' = PickleLoad(cache_file)
    /\ loaded' = dataframes'
    /\ process' = "up"
    /\ starts' = starts + 1
    /\ UNCHANGED <<cache_file, remote, contacts, removals, uiVars>>

\* import without the cache file, the package reachable: lines 46-65
ImportFromRemote ==
    /\ process = "down" /\ starts < MaxStarts
    /\ ~CacheExists(cache_file)
    /\ remote # "unreachable"
    /\ dataframes' = FetchDataframes(remote)
    /\ loaded' = dataframes'
    /\ cache_file' = PickleDump(dataframes')
    /\ contacts' = contacts + 1
    /\ process' = "up"
    /\ starts' = starts + 1
    /\ UNCHANGED <<remote, removals, uiVars>>

\* import without the cache file, the package unreachable: datapackage.Package
\* raises at line 49, the import fails and nothing is written
ImportFails ==
    /\ process = "down" /\ starts < MaxStarts
    /\ ~CacheExists(cache_file)
    /\ remote = "unreachable"
    /\ starts' = starts + 1
    /\ UNCHANGED <<dataframes, loaded, cache_file, process, remote, contacts, removals, uiVars>>

\* while the process is up, get_data serves a request for some chart
Serve(chart) ==
    /\ process = "up"
    /\ dataframes' = get_data(dataframes, chart).frames
    /\ UNCHANGED <<loaded, loadVars, uiVars>>

\* the process ends; its module-level dict is gone
ProcessExit ==
    /\ process = "up"
    /\ process' = "down"
    /\ dataframes' = NotLoaded
    /\ UNCHANGED <<loaded, cache_file, remote, contacts, removals, starts, uiVars>>

\* someone deletes oil_prices_dataframes.pkl
DeleteCacheFile ==
    /\ CacheExists(cache_file) /\ removals < MaxStarts
    /\ cache_file' = NoFile
    /\ removals' = removals + 1
    /\ UNCHANGED <<dataframes, loaded, process, remote, contacts, starts, uiVars>>

\* the remote package is republished, goes offline or comes back
RemoteChanges(state) ==
    /\ state # remote
    /\ remote' = state
    /\ UNCHANGED <<dataframes, loaded, cache_file, process, contacts, removals, starts, uiVars>>

LoadNext ==
    \/ ImportFromCache
    \/ ImportFromRemote
    \/ ImportFails
    \/ \E chart \in ChartValues : Serve(chart)
    \/ ProcessExit
    \/ DeleteCacheFile
    \/ \E state \in RemoteStates : RemoteChanges(state)

LoadSpec == LoadInit /\ [][LoadNext]_vars

---------------------------------------------------------------------------
(* Properties *)

\* the gauge callback of a window
GaugeName(k) == IF k = W20 THEN "plot_20_gauge" ELSE IF k = W50 THEN "plot_50_gauge"
                ELSE "plot_100_gauge"

\* the store holds a table with at least one row
HasRows == data_output # NoData /\ NRows(FromDict(data_output)) >= 1

\* last row of a column of the store (row labels start at 0)
LastOf(col) == data_output[col][NRows(FromDict(data_output)) - 1]

\* C1: after a change of the selected series to a name of the dataset, once the
\* controller is idle, get_data has run again and the store, the line chart, the
\* histogram and the three gauges are all the ones computed from the new series
C1_SeriesChangeRefreshesAll ==
    (Idle /\ last_event = "chart-selector" /\ selected_chart \in DOMAIN dataframes) =>
        /\ "get_data" \in ran
        /\ data_output = ToDict(AddColumns(loaded[selected_chart]))
        /\ line_chart = plot_line_chart(data_output, ma_selections)
        /\ returns_hist = update_histogram(data_output, period_selections)
        /\ \A k \in Windows :
              /\ gauge_chart[k] # NoFigure
              /\ gauge_chart[k] \in GaugeOutcomes(data_output, SMACol(k), STDCol(k))

\* C2: while the recomputation started by an overlay change (a period change) is
\* under way and when it is over, only update_line_chart (update_histogram) runs,
\* and the store, the dataset, the other chart and the gauges keep their values
C2_OnlyAffectedPayload ==
    [][ /\ last_event' = "ma-tickboxes" =>
              /\ UNCHANGED <<data_output, dataframes, returns_hist, gauge_chart>>
              /\ IF pending' = {} THEN ran' = {"update_line_chart"} ELSE ran' = {}
        /\ last_event' = "period-selection" =>
              /\ UNCHANGED <<data_output, dataframes, line_chart, gauge_chart>>
              /\ IF pending' = {} THEN ran' = {"update_histogram"} ELSE ran' = {}
      ]_vars

\* C2 witness: an overlay was ticked, then the period changed, and the histogram
\* was recomputed over charts that all exist
C2_Witness ==
    /\ Idle /\ last_event = "period-selection" /\ ran = {"update_histogram"}
    /\ Len(ma_selections) = 1
    /\ line_chart # NoFigure /\ Len(line_chart.scatters) = 1
    /\ returns_hist # NoFigure /\ returns_hist.title = period_selections
    /\ gauge_chart[W20] # NoFigure

\* C3: every table of the module-level dataset is what it was right after the load
C3_DatasetImmutable == dataframes = loaded

\* C4: when the selected name is no key of the dataset, get_data yields no data
\* and none of the five chart callbacks raises
C4_MissingSeriesNoFault ==
    (Idle /\ last_event = "chart-selector" /\ selected_chart \notin DOMAIN dataframes) =>
        /\ data_output = NoData
        /\ faulted = {}

\* C5: for a series with at least one row, every gauge callback that has run has
\* left a pointer angle that is a number between 0 and pi
C5_AngleInRange ==
    \A k \in Windows :
        (HasRows /\ GaugeName(k) \in ran) =>
            /\ GaugeName(k) \notin faulted
            /\ gauge_chart[k] # NoFigure
            /\ IsDef(gauge_chart[k].pointer_angle)
            /\ Val(gauge_chart[k].pointer_angle) \in 0..Scale

\* C6: when the window's standard deviation is 0 the gauge callback does not
\* fault and the pointer angle is pi / 2
C6_ZeroVarianceNeutral ==
    \A k \in Windows :
        (HasRows /\ GaugeName(k) \in ran /\ LastOf(STDCol(k)) = Def(0)) =>
            /\ GaugeName(k) \notin faulted
            /\ gauge_chart[k] # NoFigure
            /\ gauge_chart[k].pointer_angle = Def(Scale \div 2)

\* band of window k from the store's last row: <<band_low, band_high>> as numbers
BandLow(k) == Val(LastOf(SMACol(k))) - 2 * Val(LastOf(STDCol(k)))

BandHigh(k) == Val(LastOf(SMACol(k))) + 2 * Val(LastOf(STDCol(k)))

BandDefined(k) == HasRows /\ IsDef(LastOf(SMACol(k))) /\ IsDef(LastOf(STDCol(k)))

\* the angle policy of the claim, as a factor of pi, for numbers c, lo < hi
AnglePolicy(c, lo, hi) ==
    IF c <= lo THEN Scale
    ELSE IF c >= hi THEN 0
    ELSE Scale - (((c - lo) * Scale) \div (hi - lo))

\* C7: with a defined band band_low < band_high, the angle left by the gauge of
\* window k is the policy applied to the last Price and the band of the SMA/STD
\* columns of window k; and for every current price the callback's arithmetic
\* gives pi at or below band_low, 0 at or above band_high, the linear value in
\* between, and never a larger angle for a larger price
C7_AnglePolicy ==
    \A k \in Windows :
        (BandDefined(k) /\ GaugeName(k) \in ran /\ BandLow(k) < BandHigh(k)) =>
            LET lo == BandLow(k)
                hi == BandHigh(k)
                Angle(c) == PointerAngle(Def(c * Scale), Def(lo), Def(hi))
            IN  /\ GaugeName(k) \notin faulted
                /\ gauge_chart[k].pointer_angle =
                       Def(AnglePolicy(LastOf("Price") * Scale, lo, hi))
                /\ \A c \in 0..MaxPrice :
                      /\ Angle(c) = Def(AnglePolicy(c * Scale, lo, hi))
                      /\ c < MaxPrice => Val(Angle(c)) >= Val(Angle(c + 1))

\* C7 witness: the three gauges have run on a series whose 20-row band has the
\* price inside it and the angle strictly between 0 and pi
C7_Witness ==
    /\ Idle /\ \A k \in Windows : BandDefined(k) /\ BandLow(k) < BandHigh(k)
    /\ {"plot_20_gauge", "plot_50_gauge", "plot_100_gauge"} \subseteq ran
    /\ BandLow(W20) < LastOf("Price") * Scale /\ LastOf("Price") * Scale < BandHigh(W20)
    /\ Val(gauge_chart[W20].pointer_angle) \in 1..(Scale - 1)
    /\ gauge_chart[W20].pointer_angle # gauge_chart[W50].pointer_angle

\* the number a period option stands for
PeriodNumber(option) == CHOOSE p \in {20, 60, 100, 250} : ToString(p) = option

\* C9: the histogram is built, without a fault, from the Returns of the last
\* min(period, n) rows of the store in their order, with 15 bins
C9_HistogramTail ==
    (HasRows /\ "update_histogram" \in ran) =>
        LET n == NRows(FromDict(data_output))
            period == PeriodNumber(period_selections)
            m == IF period < n THEN period ELSE n
        IN  /\ "update_histogram" \notin faulted
            /\ returns_hist # NoFigure
            /\ returns_hist.nbins = 15
            /\ Len(returns_hist.x) = m
            /\ \A j \in 1..m : returns_hist.x[j] = data_output["Returns"][n - m + j - 1]

\* C9 witness: the period was changed to one that exceeds the number of rows of
\* the selected series, and the histogram holds all its rows
C9_Witness ==
    /\ Idle /\ HasRows /\ last_event = "period-selection" /\ ran = {"update_histogram"}
    /\ NRows(FromDict(data_output)) < PeriodNumber(period_selections)
    /\ returns_hist # NoFigure
    /\ Len(returns_hist.x) = NRows(FromDict(data_output))

\* C10: in the store written by get_data, SMA_k and STD_k are missing at the rows
\* i < k - 1 and present from row k - 1 on, where SMA_k is the mean of the k prices
\* ending at row i (to the fixed-point unit); Returns is missing at row 0 only
C10_RollingColumns ==
    (HasRows /\ ran = {"get_data"}) =>
        LET n == NRows(FromDict(data_output))
            price == FromDict(data_output)["Price"]
        IN  /\ \A k \in Windows : \A i \in 0..(n - 1) :
                  LET sma == data_output[SMACol(k)][i]
                      std == data_output[STDCol(k)][i]
                      total == RangeSum(price, i - k + 2, i + 1, FALSE)
                  IN  IF i < k - 1
                      THEN sma = NaN /\ std = NaN
                      ELSE /\ IsDef(sma) /\ IsDef(std)
                           /\ k * Val(sma) <= Scale * total
                           /\ Scale * total < k * (Val(sma) + 1)
            /\ \A i \in 0..(n - 1) : (data_output["Returns"][i] = NaN) <=> (i = 0)

\* C10 witness: get_data has just written a series of more than 100 rows, whose
\* SMA100 is missing at row 98 and present at row 99
C10_Witness ==
    /\ HasRows /\ ran = {"get_data"}
    /\ NRows(FromDict(data_output)) > W100
    /\ data_output["SMA100"][W100 - 2] = NaN
    /\ IsDef(data_output["SMA100"][W100 - 1])
    /\ IsDef(data_output["STD20"][W20 - 1])

\* an import of the module begins in this step
ImportStep == process = "down" /\ starts' = starts + 1

\* C8: an import with the cache file present loads the pickled mapping and neither
\* fetches nor rewrites the file; an import without it either fails, writing
\* nothing, or fetches the package, keeps exactly its tabular resources and
\* leaves them pickled in the file; the file changes in no other way than by
\* being written when absent or deleted, and the package is never fetched more
\* often than once plus the number of deletions of the file
C8_LoadOnceThenCache ==
    /\ [][ /\ (ImportStep /\ cache_file # NoFile) =>
                 /\ process' = "up"
                 /\ contacts' = contacts
                 /\ cache_file' = cache_file
                 /\ dataframes' = cache_file.pickled
           /\ (ImportStep /\ cache_file = NoFile /\ process' = "up") =>
                 /\ contacts' = contacts + 1
                 /\ cache_file' = [exists |-> TRUE, pickled |-> dataframes']
                 /\ \A i \in DOMAIN Resources(remote) :
                       LET resource == Resources(remote)[i]
                       IN  IF resource.tabular
                           THEN /\ resource.name \in DOMAIN dataframes'
                                /\ dataframes'[resource.name] = resource.csv
                           ELSE resource.name \notin DOMAIN dataframes'
           /\ (ImportStep /\ cache_file = NoFile /\ process' = "down") =>
                 /\ remote = "unreachable"
                 /\ cache_file' = NoFile /\ contacts' = contacts
           /\ ~ImportStep => contacts' = contacts
           /\ (cache_file # NoFile /\ cache_file' # cache_file) =>
                 (cache_file' = NoFile /\ removals' = removals + 1)
         ]_vars
    /\ [](contacts <= removals + 1)

\* C8 witness: the third start of a process whose file was written by the first
\* start and never deleted; the package has been republished since and the
\* process still serves the mapping of the file, which get_data has not changed
C8_Witness ==
    /\ process = "up" /\ starts = MaxStarts /\ contacts = 1 /\ removals = 0
    /\ cache_file # NoFile /\ remote \in {"v1", "v2"}
    /\ cache_file.pickled # FetchDataframes(remote)
    /\ dataframes # cache_file.pickled
    /\ loaded = cache_file.pickled

\* C11: the Date and Price columns of every table of the module-level dataset
\* stay those of the load, and what get_data has just published for the selected
\* name is what get_data publishes for it on the dataset as loaded, whatever was
\* selected (and written into the tables) before
C11_PublishedIndependentOfHistory ==
    /\ \A name \in DOMAIN dataframes :
          /\ name \in DOMAIN loaded
          /\ dataframes[name]["Date"] = loaded[name]["Date"]
          /\ dataframes[name]["Price"] = loaded[name]["Price"]
    /\ (ran = {"get_data"} /\ selected_chart \in DOMAIN dataframes) =>
          data_output = get_data(loaded, selected_chart).result

\* C11 witness: get_data has just run for brent-daily_csv a second time, after a
\* switch to another series and back, on tables that already hold derived columns
C11_Witness ==
    /\ ran = {"get_data"} /\ events = 2 /\ selected_chart = "brent-daily_csv"
    /\ "SMA20" \notin DOMAIN loaded["brent-daily_csv"]
    /\ \E other \in DOMAIN dataframes \ {"brent-daily_csv"} : "SMA20" \in DOMAIN dataframes[other]
    /\ "Returns" \in DOMAIN dataframes["brent-daily_csv"]
    /\ data_output # NoData
    /\ IsDef(data_output["SMA100"][W100])

====
